---- MODULE Spec2Model ----
(***************************************************************************)
(* kf_vs_ak: comparison of the net return of an aktiekonto and of a        *)
(* kapitalforsakring over the OMXS30 index (src/main.rs).                  *)
(*                                                                         *)
(* The program is one main(): it builds a per-year table from two lists of *)
(* dated observations, replays the index year over year for every start    *)
(* year, collects the results of the five horizons and prints them.        *)
(*                                                                         *)
(* f32 values are modelled as exact reals extended with the IEEE special   *)
(* values NaN and +/-infinity; rounding, overflow to infinity and the sign *)
(* of zero are not modelled.  A finite nonzero value is kept as a sign and *)
(* the prime factorisation of its absolute value, so that the products of  *)
(* thirty yearly factors stay representable.                               *)
(***************************************************************************)
EXTENDS Integers, Sequences, FiniteSets, TLC

(***************************************************************************)
(* Exact arithmetic on factorisations                                      *)
(***************************************************************************)

\* the factorisation of 1: no prime has an exponent
EmptyFac == [p \in {} |-> 0]

FacExp(f, p) == IF p \in DOMAIN f THEN f[p] ELSE 0

FacMul(f, g) ==
    LET D == DOMAIN f \cup DOMAIN g
        K == {p \in D : FacExp(f, p) + FacExp(g, p) # 0}
    IN  [p \in K |-> FacExp(f, p) + FacExp(g, p)]

FacInv(f) == [p \in DOMAIN f |-> 0 - f[p]]

\* the greatest common factor of two positive rationals (minimum exponents)
FacGcd(f, g) ==
    LET D == DOMAIN f \cup DOMAIN g
        m(p) == IF FacExp(f, p) < FacExp(g, p) THEN FacExp(f, p) ELSE FacExp(g, p)
        K == {p \in D : m(p) # 0}
    IN  [p \in K |-> m(p)]

RECURSIVE IntPow(_, _)
IntPow(b, e) == IF e = 0 THEN 1 ELSE b * IntPow(b, e - 1)

\* the integer a factorisation with non-negative exponents stands for
RECURSIVE FacInt(_)
FacInt(f) ==
    IF DOMAIN f = {} THEN 1
    ELSE LET p == CHOOSE q \in DOMAIN f : TRUE
         IN  IntPow(p, f[p]) * FacInt([q \in DOMAIN f \ {p} |-> f[q]])

\* the integer square root, by bisection of lo..hi
RECURSIVE IsqrtIn(_, _, _)
IsqrtIn(n, lo, hi) ==
    IF lo >= hi THEN lo
    ELSE LET mid == (lo + hi + 1) \div 2
         IN  IF mid * mid <= n THEN IsqrtIn(n, mid, hi) ELSE IsqrtIn(n, lo, mid - 1)

Isqrt(n) == IsqrtIn(n, 1, IF n < 46340 THEN n ELSE 46340)

\* factorisation of a positive integer: split off its least prime divisor
RECURSIVE Factor(_)
Factor(n) ==
    IF n = 1 THEN EmptyFac
    ELSE LET divs == {p \in 2..Isqrt(n) : n % p = 0}
         IN  IF divs = {} THEN [q \in {n} |-> 1]
             ELSE LET p == CHOOSE d \in divs : \A e \in divs : d <= e
                  IN  FacMul([q \in {p} |-> 1], Factor(n \div p))

(***************************************************************************)
(* f32 values                                                              *)
(***************************************************************************)

NaN  == [k |-> "nan", s |-> 0, f |-> EmptyFac]
Inf  == [k |-> "inf", s |-> 1, f |-> EmptyFac]
NInf == [k |-> "inf", s |-> -1, f |-> EmptyFac]
Zero == [k |-> "num", s |-> 0, f |-> EmptyFac]
One  == [k |-> "num", s |-> 1, f |-> EmptyFac]

IsNaN(a) == a.k = "nan"
IsFinite(a) == a.k = "num"

Sgn(i) == IF i > 0 THEN 1 ELSE IF i < 0 THEN -1 ELSE 0
Abs(i) == IF i < 0 THEN 0 - i ELSE i

\* the value n / d, d > 0
FromRat(n, d) ==
    IF n = 0 THEN Zero
    ELSE [k |-> "num", s |-> Sgn(n), f |-> FacMul(Factor(Abs(n)), FacInv(Factor(d)))]

FromInt(i) == FromRat(i, 1)

FNeg(a) == [a EXCEPT !.s = 0 - a.s]

\* a * b
FMul(a, b) ==
    IF IsNaN(a) \/ IsNaN(b) THEN NaN
    ELSE IF a.k = "inf" \/ b.k = "inf"
         THEN IF a.s * b.s = 0 THEN NaN
              ELSE [k |-> "inf", s |-> a.s * b.s, f |-> EmptyFac]
    ELSE IF a.s * b.s = 0 THEN Zero
    ELSE [k |-> "num", s |-> a.s * b.s, f |-> FacMul(a.f, b.f)]

\* a / b
FDiv(a, b) ==
    IF IsNaN(a) \/ IsNaN(b) THEN NaN
    ELSE IF b.k = "inf"
         THEN IF a.k = "inf" THEN NaN ELSE Zero
    ELSE IF b.s = 0
         THEN IF a.s = 0 THEN NaN
              ELSE [k |-> "inf", s |-> a.s, f |-> EmptyFac]
    ELSE IF a.k = "inf" THEN [k |-> "inf", s |-> a.s * b.s, f |-> EmptyFac]
    ELSE IF a.s = 0 THEN Zero
    ELSE [k |-> "num", s |-> a.s * b.s, f |-> FacMul(a.f, FacInv(b.f))]

\* a + b
FAdd(a, b) ==
    IF IsNaN(a) \/ IsNaN(b) THEN NaN
    ELSE IF a.k = "inf"
         THEN IF b.k = "inf" /\ b.s # a.s THEN NaN ELSE a
    ELSE IF b.k = "inf" THEN b
    ELSE IF a.s = 0 THEN b
    ELSE IF b.s = 0 THEN a
    ELSE LET g == FacGcd(a.f, b.f)
             x == a.s * FacInt(FacMul(a.f, FacInv(g)))
             y == b.s * FacInt(FacMul(b.f, FacInv(g)))
         IN  IF x + y = 0 THEN Zero
             ELSE [k |-> "num", s |-> Sgn(x + y),
                   f |-> FacMul(g, Factor(Abs(x + y)))]

FSub(a, b) == FAdd(a, FNeg(b))

\* a < b as IEEE compares: false when either side is NaN
FLt(a, b) ==
    IF IsNaN(a) \/ IsNaN(b) THEN FALSE
    ELSE LET d == FSub(b, a)
         IN  IF IsNaN(d) THEN FALSE      \* equal infinities
             ELSE d.s > 0

FEq(a, b) == ~IsNaN(a) /\ ~IsNaN(b) /\ a = b

FLe(a, b) == FLt(a, b) \/ FEq(a, b)

\* f32::max: the larger operand; when one operand is NaN, the other
FMax(a, b) ==
    IF IsNaN(a) THEN b
    ELSE IF IsNaN(b) THEN a
    ELSE IF FLt(a, b) THEN b ELSE a

(***************************************************************************)
(* Program constants                                                       *)
(***************************************************************************)

FirstStartYear == 1993
LastStartYear == 2022
\* the inner range ending one year later
EndYear_OneLater == 2023 + 1
EndYear == 2023

\* the five horizons main() collects, in the order it prints them
Horizons == <<5, 10, 15, 20, 25>>

\* 0.206, the capital-gains rate applied to the aktiekonto's net gain
GainsTaxRate == FromRat(206, 1000)

(***************************************************************************)
(* Bounds of the inputs                                                    *)
(***************************************************************************)

\* longest short list of index observations / of rate observations
MaxObs == 3
MaxObsSlr == 2
\* longest series handed to print_series on its own
MaxAggLen == 2

(***************************************************************************)
(* State                                                                   *)
(***************************************************************************)

VARIABLES
    pc,                   \* position in main()
    omx_records,          \* the parsed lines of omxs30.txt, in file order
    slr_records,          \* the parsed lines of stadslaneranta.csv, in file order
    last_omxs30_by_year,
    last_slr_by_year,
    combined_records,
    series_5, series_10, series_15, series_20, series_25,
    start_year,           \* loop variable of the outer loop
    year,                 \* loop variable of the inner loop (last year processed)
    kf_sum, ak_sum, ak_val,
    printed               \* what print_series wrote, one element per call

vars == <<pc, omx_records, slr_records, last_omxs30_by_year, last_slr_by_year,
          combined_records, series_5, series_10, series_15, series_20, series_25,
          start_year, year, kf_sum, ak_sum, ak_val, printed>>

inputVars == <<omx_records, slr_records>>
tableVars == <<last_omxs30_by_year, last_slr_by_year, combined_records>>
seriesVars == <<series_5, series_10, series_15, series_20, series_25>>
loopVars == <<start_year, year, kf_sum, ak_sum, ak_val>>

EmptyMap == [y \in {} |-> Zero]

(***************************************************************************)
(* Series Builder                                                          *)
(***************************************************************************)

SetMax(S) == CHOOSE m \in S : \A x \in S : x <= m

\* a NaiveDate is <<year, day of the year>>
DateYear(d) == d[1]
DateLess(a, b) == a[1] < b[1] \/ (a[1] = b[1] /\ a[2] < b[2])

\* a sort that puts records of one date in the reverse of the order they had
SortRank_TiesReversed(records, i) ==
    1 + Cardinality({j \in 1..Len(records) :
                        \/ DateLess(records[j].date, records[i].date)
                        \/ (records[j].date = records[i].date /\ j > i)})

\* slice::sort_by is stable: records come out by ascending date, and records
\* of one date in the order they had.  SortRank is the place a record gets.
SortRank(records, i) ==
    1 + Cardinality({j \in 1..Len(records) :
                        \/ DateLess(records[j].date, records[i].date)
                        \/ (records[j].date = records[i].date /\ j < i)})

SortByDate(records) ==
    [k \in 1..Len(records) |->
        records[CHOOSE i \in 1..Len(records) : SortRank(records, i) = k]]

\* HashMap::insert of every record in turn under its year: a later insert
\* replaces an earlier one, so a year is left with its last record
LastRecordsByYear(records) ==
    LET years == {DateYear(records[i].date) : i \in 1..Len(records)}
        last(y) == SetMax({i \in 1..Len(records) : DateYear(records[i].date) = y})
    IN  [y \in years |-> records[last(y)]]

LastValueByYear(records) ==
    LET m == LastRecordsByYear(SortByDate(records))
    IN  [y \in DOMAIN m |-> m[y].value]

(***************************************************************************)
(* Tax Model                                                               *)
(***************************************************************************)

\* the tax without the statutory floor on its base
calculate_avkastningsskatt_NoFloor(slr) ==
    FMul(FMul(FromRat(1, 100), FAdd(slr, One)), FromRat(30, 100))

calculate_avkastningsskatt(slr) ==
    LET tax_base_rate == FromRat(30, 100)
        minimum_tax_percentage == FromRat(125, 100)
    IN  FMul(FMul(FromRat(1, 100), FMax(FAdd(slr, One), minimum_tax_percentage)),
             tax_base_rate)

\* a table of the years both sources have
CombineRecords_CommonYears(omx, slr) ==
    [y \in DOMAIN omx \cap DOMAIN slr |->
        [avkastningsskatt |-> calculate_avkastningsskatt(slr[y]), omxs30 |-> omx[y]]]

CombineRecords(omx, slr) ==
    LET years == DOMAIN omx \cup DOMAIN slr
    IN  [y \in years |->
            [avkastningsskatt |->
                 calculate_avkastningsskatt(IF y \in DOMAIN slr THEN slr[y] ELSE Zero),
             omxs30 |-> IF y \in DOMAIN omx THEN omx[y] ELSE Zero]]

(***************************************************************************)
(* Aggregator/Reporter                                                     *)
(***************************************************************************)

SeriesEntry(sy, ak, kf) == [start_year |-> sy, aktiekonto |-> ak, kapitalforsakring |-> kf]

\* lines 72-76: the entries are added up from 0.0.  Exact addition is
\* associative, so the sum of the entries lo+1..hi is taken by halves.
RECURSIVE SumAktiekonto(_, _, _)
SumAktiekonto(series, lo, hi) ==
    IF hi <= lo THEN Zero
    ELSE IF hi = lo + 1 THEN series[hi].aktiekonto
    ELSE LET m == (lo + hi) \div 2
         IN  FAdd(SumAktiekonto(series, lo, m), SumAktiekonto(series, m, hi))

RECURSIVE SumKapitalforsakring(_, _, _)
SumKapitalforsakring(series, lo, hi) ==
    IF hi <= lo THEN Zero
    ELSE IF hi = lo + 1 THEN series[hi].kapitalforsakring
    ELSE LET m == (lo + hi) \div 2
         IN  FAdd(SumKapitalforsakring(series, lo, m), SumKapitalforsakring(series, m, hi))

\* what one call writes: the header, one row per entry, the line of averages
print_series(len, series) ==
    [len |-> len,
     rows |-> series,
     average_aktiekonto |-> FDiv(SumAktiekonto(series, 0, Len(series)), FromInt(Len(series))),
     average_kapitalforsakring |->
         FDiv(SumKapitalforsakring(series, 0, Len(series)), FromInt(Len(series)))]

SeriesOf(h) ==
    CASE h = 5 -> series_5
      [] h = 10 -> series_10
      [] h = 15 -> series_15
      [] h = 20 -> series_20
      [] h = 25 -> series_25

(***************************************************************************)
(* Inputs: the records the two files parse to                              *)
(***************************************************************************)

Obs(y, d, v) == [date |-> <<y, d>>, value |-> v]

FullYears == FirstStartYear..EndYear

\* index level of year y under a profile
IndexAt(p, y) ==
    CASE p = "flat" -> 100
      [] p = "double5" -> 100 * IntPow(2, (y - FirstStartYear) \div 5)
      [] p = "zigzag" -> IF y % 2 = 0 THEN 100 ELSE 200
      [] p = "zero2000" -> IF y = 2000 THEN 0 ELSE 100

\* reference rate of year y under a profile, in percent
RateAt(p, y) ==
    CASE p = "floor" -> IF y % 2 = 0 THEN FromInt(-2) ELSE FromRat(-5, 4)
      [] p = "nine" -> FromInt(9)
      [] p = "mixed" -> IF y = 2000 THEN FromInt(9) ELSE FromRat(1, 10)

\* the k-th year of Y counting from the latest
YearFromLast(Y, k) == CHOOSE y \in Y : Cardinality({z \in Y : z > y}) = k - 1

\* a file that lists the years latest first, each year with its year-end
\* observation followed by an earlier one of another value
OmxFile(Y, p) ==
    [i \in 1..(2 * Cardinality(Y)) |->
        LET y == YearFromLast(Y, (i + 1) \div 2)
        IN  IF i % 2 = 1 THEN Obs(y, 2, FromInt(IndexAt(p, y)))
            ELSE Obs(y, 1, FromInt(IndexAt(p, y) + 1))]

SlrFile(Y, p) ==
    [i \in 1..(2 * Cardinality(Y)) |->
        LET y == YearFromLast(Y, (i + 1) \div 2)
        IN  IF i % 2 = 1 THEN Obs(y, 2, RateAt(p, y))
            ELSE Obs(y, 1, FAdd(RateAt(p, y), One))]

\* the long inputs: which years each file covers and with which values
Scenarios ==
    { [oy |-> FullYears, op |-> "flat", sy |-> FullYears, sp |-> "floor"],
      [oy |-> FullYears, op |-> "double5", sy |-> FullYears, sp |-> "nine"],
      [oy |-> FullYears, op |-> "zigzag", sy |-> FullYears, sp |-> "mixed"],
      [oy |-> FullYears, op |-> "zero2000", sy |-> FullYears, sp |-> "floor"],
      [oy |-> FirstStartYear..(EndYear - 1), op |-> "flat",
       sy |-> FirstStartYear..(EndYear - 1), sp |-> "floor"],
      [oy |-> FirstStartYear..(EndYear + 1), op |-> "double5",
       sy |-> FirstStartYear..(EndYear + 1), sp |-> "mixed"],
      [oy |-> {1993, 1994, 1998}, op |-> "double5",
       sy |-> {1993, 1994, 1998}, sp |-> "nine"],
      [oy |-> FullYears \ {2010}, op |-> "flat", sy |-> FullYears, sp |-> "floor"],
      [oy |-> FullYears, op |-> "double5", sy |-> FullYears \ {2010}, sp |-> "nine"],
      [oy |-> FullYears \ {2010}, op |-> "zigzag",
       sy |-> FullYears \ {2010}, sp |-> "mixed"],
      [oy |-> (FirstStartYear + 1)..EndYear, op |-> "flat",
       sy |-> (FirstStartYear + 1)..EndYear, sp |-> "nine"] }

\* the short inputs: up to n observations on any dates of two years, in any
\* order; the i-th observation of a file carries the i-th value, so that the
\* observation a year ends up with can be told from its value
ShortDates == {1993, 1994} \X {1, 2}

ShortDateSeqs(n) == UNION {[1..k -> ShortDates] : k \in 0..n}

ShortOmxValue(i) == FromInt(100 * i)

ShortSlrValue(i) ==
    CASE i = 1 -> FromInt(-2)
      [] i = 2 -> FromInt(9)
      [] OTHER -> NaN

ShortOmxFile(ds) == [i \in 1..Len(ds) |-> [date |-> ds[i], value |-> ShortOmxValue(i)]]
ShortSlrFile(ds) == [i \in 1..Len(ds) |-> [date |-> ds[i], value |-> ShortSlrValue(i)]]

(***************************************************************************)
(* main()                                                                  *)
(***************************************************************************)

InitRest ==
    /\ last_omxs30_by_year = EmptyMap
    /\ last_slr_by_year = EmptyMap
    /\ combined_records = EmptyMap
    /\ series_5 = <<>> /\ series_10 = <<>> /\ series_15 = <<>>
    /\ series_20 = <<>> /\ series_25 = <<>>
    /\ start_year = FirstStartYear
    /\ year = FirstStartYear
    /\ kf_sum = One /\ ak_sum = One /\ ak_val = One
    /\ printed = <<>>

Init ==
    /\ pc = "load_omxs30"
    /\ \/ \E sc \in Scenarios :
            /\ omx_records = OmxFile(sc.oy, sc.op)
            /\ slr_records = SlrFile(sc.sy, sc.sp)
       \/ \E od \in ShortDateSeqs(MaxObs), sd \in ShortDateSeqs(MaxObsSlr) :
            /\ omx_records = ShortOmxFile(od)
            /\ slr_records = ShortSlrFile(sd)
    /\ InitRest

\* lines 93-114: sort the index records by date, keep the last of each year
LoadOmxs30 ==
    /\ pc = "load_omxs30"
    /\ last_omxs30_by_year' = LastValueByYear(omx_records)
    /\ pc' = "load_slr"
    /\ UNCHANGED <<inputVars, last_slr_by_year, combined_records, seriesVars,
                   loopVars, printed>>

\* lines 116-138: the same for the rate records
LoadSlr ==
    /\ pc = "load_slr"
    /\ last_slr_by_year' = LastValueByYear(slr_records)
    /\ pc' = "combine"
    /\ UNCHANGED <<inputVars, last_omxs30_by_year, combined_records, seriesVars,
                   loopVars, printed>>

\* lines 140-163: one Record per year of either map; the five empty series
Combine ==
    /\ pc = "combine"
    /\ combined_records' = CombineRecords(last_omxs30_by_year, last_slr_by_year)
    /\ pc' = "outer"
    /\ UNCHANGED <<inputVars, last_omxs30_by_year, last_slr_by_year, seriesVars,
                   loopVars, printed>>

\* a multiplier carried over from the previous start year
kf_sum_carried == kf_sum

\* lines 166-167: the value both running multipliers start a start year with
kf_sum_init == One
ak_sum_init == One

\* a lookup that falls back on an all-zero record instead of panicking
IndexRecord_OrDefault(table, y) ==
    IF y \in DOMAIN table THEN [panic |-> FALSE, record |-> table[y]]
    ELSE [panic |-> FALSE, record |-> [avkastningsskatt |-> Zero, omxs30 |-> Zero]]

\* lines 170-171, Index::index of the HashMap: the record of a year, or a panic
IndexRecord(table, y) ==
    IF y \in DOMAIN table THEN [panic |-> FALSE, record |-> table[y]]
    ELSE [panic |-> TRUE, record |-> [avkastningsskatt |-> NaN, omxs30 |-> NaN]]

\* a step that leaves the year's tax out
StepKf_Untaxed(kf, diff, avkastningsskatt) == FMul(kf, diff)

\* lines 173-175
StepAk(ak, diff) == FMul(ak, diff)
StepKf(kf, diff, avkastningsskatt) == FMul(FMul(kf, diff), FSub(One, avkastningsskatt))

\* the gains tax without its floor at zero
AkVal_NoFloor(ak) == FSub(ak, FMul(FSub(ak, One), GainsTaxRate))

\* line 177
AkVal(ak) == FSub(ak, FMax(FMul(FSub(ak, One), GainsTaxRate), Zero))

\* an entry pushed at every count from the horizon on
Push_FromHorizonOn(series, h, count, entry) ==
    IF count >= h THEN Append(series, entry) ELSE series

\* lines 181-219: the entry goes to the series of the horizon the count equals
Push(series, h, count, entry) == IF count = h THEN Append(series, entry) ELSE series

\* lines 165-167: enter the body of the outer loop for the next start year
BeginStartYear ==
    /\ pc = "outer"
    /\ start_year <= LastStartYear
    /\ kf_sum' = kf_sum_init
    /\ ak_sum' = ak_sum_init
    /\ year' = start_year
    /\ pc' = "inner"
    /\ UNCHANGED <<inputVars, tableVars, seriesVars, start_year, ak_val, printed>>

\* lines 169-220: one iteration of the inner loop, for the year after `year`
SimStep ==
    /\ pc = "inner"
    /\ year < EndYear
    /\ LET y == year + 1 IN
       /\ ~IndexRecord(combined_records, y - 1).panic
       /\ ~IndexRecord(combined_records, y).panic
       /\ LET previous_val == IndexRecord(combined_records, y - 1).record.omxs30
              val == IndexRecord(combined_records, y).record.omxs30
              diff == FDiv(val, previous_val)
              ak == StepAk(ak_sum, diff)
              kf == StepKf(kf_sum, diff,
                          IndexRecord(combined_records, y).record.avkastningsskatt)
              year_count == y - start_year
              entry == SeriesEntry(start_year, AkVal(ak), kf)
          IN  /\ ak_sum' = ak
              /\ kf_sum' = kf
              /\ ak_val' = AkVal(ak)
              /\ series_5' = Push(series_5, 5, year_count, entry)
              /\ series_10' = Push(series_10, 10, year_count, entry)
              /\ series_15' = Push(series_15, 15, year_count, entry)
              /\ series_20' = Push(series_20, 20, year_count, entry)
              /\ series_25' = Push(series_25, 25, year_count, entry)
       /\ year' = y
    /\ UNCHANGED <<pc, inputVars, tableVars, start_year, printed>>

\* lines 170-171: indexing the table with a year it does not hold panics
SimPanic ==
    /\ pc = "inner"
    /\ year < EndYear
    /\ \/ IndexRecord(combined_records, year).panic
       \/ IndexRecord(combined_records, year + 1).panic
    /\ pc' = "panicked"
    /\ UNCHANGED <<inputVars, tableVars, seriesVars, loopVars, printed>>

\* line 221: the inner range is exhausted, on to the next start year
EndStartYear ==
    /\ pc = "inner"
    /\ year = EndYear
    /\ start_year' = start_year + 1
    /\ pc' = "outer"
    /\ UNCHANGED <<inputVars, tableVars, seriesVars, year, kf_sum, ak_sum, ak_val,
                   printed>>

\* line 221: the outer range is exhausted
EndSimulation ==
    /\ pc = "outer"
    /\ start_year > LastStartYear
    /\ pc' = "print"
    /\ UNCHANGED <<inputVars, tableVars, seriesVars, loopVars, printed>>

\* lines 223-229: the next call of print_series; Ok(()) after the fifth
PrintSeries ==
    /\ pc = "print"
    /\ LET h == Horizons[Len(printed) + 1]
       IN  printed' = Append(printed, print_series(h, SeriesOf(h)))
    /\ pc' = IF Len(printed) + 1 = Len(Horizons) THEN "done" ELSE "print"
    /\ UNCHANGED <<inputVars, tableVars, seriesVars, loopVars>>

Next ==
    \/ LoadOmxs30
    \/ LoadSlr
    \/ Combine
    \/ BeginStartYear
    \/ SimStep
    \/ SimPanic
    \/ EndStartYear
    \/ EndSimulation
    \/ PrintSeries

Spec == Init /\ [][Next]_vars

(***************************************************************************)
(* print_series on its own: main() at line 223 with arbitrary short series *)
(***************************************************************************)

AggEntries ==
    { SeriesEntry(1993, FromRat(1794, 1000), FromInt(2)),
      SeriesEntry(1994, FromRat(1, 2), FromRat(797, 1600)) }

AggSeqs(n) == UNION {[1..k -> AggEntries] : k \in 0..n}

AggInit ==
    /\ pc = "print"
    /\ omx_records = <<>>
    /\ slr_records = <<>>
    /\ last_omxs30_by_year = EmptyMap
    /\ last_slr_by_year = EmptyMap
    /\ combined_records = EmptyMap
    /\ series_5 \in AggSeqs(MaxAggLen)
    /\ series_10 \in AggSeqs(1)
    /\ series_15 \in AggSeqs(1)
    /\ series_20 \in AggSeqs(1)
    /\ series_25 \in AggSeqs(1)
    /\ start_year = LastStartYear + 1
    /\ year = EndYear
    /\ kf_sum = One /\ ak_sum = One /\ ak_val = One
    /\ printed = <<>>

AggNext == PrintSeries

AggSpec == AggInit /\ [][AggNext]_vars

(***************************************************************************)
(* Properties                                                              *)
(***************************************************************************)

AllSeries == <<series_5, series_10, series_15, series_20, series_25>>
HorizonAt(i) == 5 * i

Simulating == pc \in {"inner", "panicked"}
Simulated == pc \in {"outer", "inner", "panicked", "print", "done"}
\* a step of the inner loop has run for the current start year
Computed == Simulating /\ year > start_year

StartYearsOf(series) == {series[i].start_year : i \in 1..Len(series)}

\* the step of start year s with year - s = h has run
C1_Reached(s, h) ==
    /\ s + h <= 2023
    /\ \/ s < start_year
       \/ s = start_year /\ Simulating /\ year >= s + h

\* each series holds the reached pairs of its horizon, once, in order
C1_SeriesHoldReachedPairs ==
    \A i \in 1..5 :
        LET series == AllSeries[i]
        IN  /\ StartYearsOf(series) = {s \in 1993..2022 : C1_Reached(s, HorizonAt(i))}
            /\ \A j, k \in 1..Len(series) :
                   j < k => series[j].start_year < series[k].start_year

\* a series grows exactly in the step of its horizon, by one entry
C1_GrowsAtHorizonStep ==
    \A i \in 1..5 :
        /\ AllSeries[i]' # AllSeries[i] =>
              /\ pc = "inner"
              /\ year' - start_year = HorizonAt(i)
              /\ Len(AllSeries[i]') = Len(AllSeries[i]) + 1
              /\ SubSeq(AllSeries[i]', 1, Len(AllSeries[i])) = AllSeries[i]
              /\ AllSeries[i]'[Len(AllSeries[i]')].start_year = start_year
        /\ (pc = "inner" /\ year' = year + 1 /\ year' - start_year = HorizonAt(i))
              => Len(AllSeries[i]') = Len(AllSeries[i]) + 1

\* C1: for every start year of 1993..2022 and every horizon of 5, 10, 15, 20,
\* 25, the result of (start year, horizon) is in the series of that horizon
\* exactly when the step with year - start_year = horizon has run, once, under
\* its start year; a series grows only in that step, by one entry of the
\* current start year.
C1_EmittedOnceAtHorizon ==
    /\ [](Simulated => C1_SeriesHoldReachedPairs)
    /\ [][C1_GrowsAtHorizonStep]_vars

C1_Witness ==
    /\ pc = "done"
    /\ Len(series_5) = 26 /\ Len(series_10) = 21 /\ Len(series_15) = 16
    /\ Len(series_20) = 11 /\ Len(series_25) = 6
    /\ series_25[6].start_year = 1998

InTable(y) == y \in DOMAIN combined_records

\* C2: no result is emitted for a window that holds a year the table lacks,
\* and the simulation of a start year never runs to its end when the table
\* lacks a year between the start year and the last year of the iteration;
\* with the table {1993, 1994, 1998} the start year 1993 panics on 1995 and
\* nothing is emitted.
C2_MissingYearFails ==
    /\ \A i \in 1..5 : \A j \in 1..Len(AllSeries[i]) :
           \A y \in AllSeries[i][j].start_year
                      ..(AllSeries[i][j].start_year + HorizonAt(i)) : InTable(y)
    /\ (pc = "inner" /\ year = 2023) => \A y \in start_year..2023 : InTable(y)
    /\ pc \in {"print", "done"} => \A y \in 1993..2023 : InTable(y)
    /\ (Simulated /\ DOMAIN combined_records = {1993, 1994, 1998}) =>
           /\ \A i \in 1..5 : AllSeries[i] = <<>>
           /\ pc \in {"outer", "inner", "panicked"}
           /\ start_year = 1993
           /\ Simulating => year <= 1994

C2_Witness ==
    /\ pc = "panicked"
    /\ DOMAIN combined_records = {1993, 1994, 1998}
    /\ start_year = 1993 /\ year = 1994
    /\ series_5 = <<>>
    /\ printed = <<>>

\* the table has every year from 1993 to its last year
TableEndsGapFree ==
    /\ DOMAIN combined_records # {}
    /\ \A y \in 1993..SetMax(DOMAIN combined_records) : InTable(y)

\* C3 as claimed: when the table has every year from 1993 to its last year,
\* the pairs that end after that last year yield nothing and the run does not
\* fail.
C3_NoErrorPastTableEnd == (Simulated /\ TableEndsGapFree) => pc # "panicked"

\* C3, amended: the inner iteration runs to the fixed year 2023 whatever the
\* last year of the table.  A pair with start_year + horizon > 2023 yields no
\* result; the run fails exactly when the table lacks a year of 1993..2023,
\* also when it merely ends before 2023; when it completes, every pair with
\* start_year + horizon <= 2023 has its result.
C3_IterationEndsAt2023 ==
    /\ \A i \in 1..5 : \A j \in 1..Len(AllSeries[i]) :
           AllSeries[i][j].start_year + HorizonAt(i) <= 2023
    /\ (Simulated /\ \A y \in 1993..2023 : InTable(y)) => pc # "panicked"
    /\ (Simulated /\ \E y \in 1993..2023 : ~InTable(y)) => pc \notin {"print", "done"}
    /\ pc \in {"print", "done"} =>
           \A i \in 1..5 :
               StartYearsOf(AllSeries[i]) = {s \in 1993..2022 : s + HorizonAt(i) <= 2023}

C3_Witness ==
    /\ pc = "done"
    /\ InTable(2024)
    /\ StartYearsOf(series_25) = 1993..1998

\* the product of index[y] / index[y-1] over y in s+1..e, 1.0 when there is
\* no such year.  Exact multiplication is associative, so the product is taken
\* by halves.
RECURSIVE RatioProduct(_, _, _)
RatioProduct(table, s, e) ==
    IF e <= s THEN One
    ELSE IF e = s + 1 THEN FDiv(table[e].omxs30, table[s].omxs30)
    ELSE LET m == (s + e) \div 2
         IN  FMul(RatioProduct(table, s, m), RatioProduct(table, m, e))

\* the product of (1 - tax_rate[y]) over y in s+1..e
RECURSIVE KeptProduct(_, _, _)
KeptProduct(table, s, e) ==
    IF e <= s THEN One
    ELSE IF e = s + 1 THEN FSub(One, table[e].avkastningsskatt)
    ELSE LET m == (s + e) \div 2
         IN  FMul(KeptProduct(table, s, m), KeptProduct(table, m, e))

\* the product of (index[y] / index[y-1]) * (1 - tax_rate[y]) over the same years
RECURSIVE TaxedProduct(_, _, _)
TaxedProduct(table, s, e) ==
    IF e <= s THEN One
    ELSE IF e = s + 1 THEN FMul(FDiv(table[e].omxs30, table[s].omxs30),
                                FSub(One, table[e].avkastningsskatt))
    ELSE LET m == (s + e) \div 2
         IN  FMul(TaxedProduct(table, s, m), TaxedProduct(table, m, e))

IndexDoubles(s, h) ==
    /\ \A y \in s..(s + h) : combined_records[y].omxs30.s = 1
    /\ combined_records[s + h].omxs30 = FMul(FromInt(2), combined_records[s].omxs30)

\* C4: after every step of the inner loop ak_sum is the product of the index
\* ratios of the years start_year+1..year and kf_sum the product of the taxed
\* ratios, both from 1.0, and the entry emitted in the step reports kf_sum;
\* when the index doubles over the window of an entry its aktiekonto value is
\* 1.794 and its kapitalforsakring value is 2.0 times the untaxed share of
\* each year, which is 2.0 when every tax rate is 0.
C4_RunningProducts ==
    /\ Computed =>
           /\ ak_sum = RatioProduct(combined_records, start_year, year)
           /\ kf_sum = TaxedProduct(combined_records, start_year, year)
           /\ \A i \in 1..5 :
                  year - start_year = HorizonAt(i) =>
                      /\ AllSeries[i] # <<>>
                      /\ AllSeries[i][Len(AllSeries[i])].kapitalforsakring = kf_sum
    /\ \A i \in 1..5 : \A j \in 1..Len(AllSeries[i]) :
           LET e == AllSeries[i][j]
               s == e.start_year
               h == HorizonAt(i)
           IN  IndexDoubles(s, h) =>
                   /\ e.aktiekonto = FromRat(1794, 1000)
                   /\ e.kapitalforsakring =
                          FMul(FromInt(2), KeptProduct(combined_records, s, s + h))
                   /\ (\A y \in (s + 1)..(s + h) :
                           combined_records[y].avkastningsskatt = Zero)
                          => e.kapitalforsakring = FromInt(2)

C4_Witness ==
    /\ Computed
    /\ year - start_year = 5
    /\ IndexDoubles(start_year, 5)
    /\ ak_sum = FromInt(2)
    /\ series_5[Len(series_5)].aktiekonto = FromRat(1794, 1000)
    /\ series_5[Len(series_5)].kapitalforsakring # FromInt(2)

\* C5 as claimed: ak_effective <= ak_sum, and ak_effective >= 1.0 whenever
\* ak_sum <= 1.0.
C5_LossCapAsClaimed ==
    Computed =>
        /\ FLe(ak_val, ak_sum)
        /\ FLe(ak_sum, One) => FLe(One, ak_val)

\* C5, amended: for every finite ak_sum, ak_effective <= ak_sum, and
\* ak_effective = ak_sum whenever ak_sum <= 1.0 (nothing is subtracted on a
\* loss); when ak_sum is NaN or infinite (an index value of 0.0 in the
\* window) ak_effective is NaN and compares with nothing.
C5_LossCap ==
    Computed =>
        /\ IsFinite(ak_sum) => FLe(ak_val, ak_sum)
        /\ FLe(ak_sum, One) => FEq(ak_val, ak_sum)
        /\ FLt(One, ak_sum) /\ IsFinite(ak_sum) => FLt(ak_val, ak_sum) /\ FLt(One, ak_val)
        /\ ~IsFinite(ak_sum) => IsNaN(ak_val)

C5_Witness ==
    /\ Computed
    /\ FLt(ak_sum, One)
    /\ ak_val = ak_sum
    /\ year - start_year = 5
    /\ series_5[Len(series_5)].aktiekonto = FromRat(1, 2)

\* C6: a call of print_series with no entries writes averages that are not
\* NaN.
C6_EmptyGroupNotNaN ==
    \A i \in 1..Len(printed) :
        printed[i].rows = <<>> =>
            /\ ~IsNaN(printed[i].average_aktiekonto)
            /\ ~IsNaN(printed[i].average_kapitalforsakring)

\* the table entries of the years s..s+h, and the result they determine
WindowOf(s, h) == [y \in s..(s + h) |-> combined_records[y]]

WindowResult(s, h) ==
    LET ak == RatioProduct(WindowOf(s, h), s, s + h)
    IN  SeriesEntry(s,
                    IF FLt(One, ak) THEN FSub(ak, FMul(FSub(ak, One), FromRat(206, 1000)))
                    ELSE IF ak.k = "num" THEN ak ELSE NaN,
                    TaxedProduct(WindowOf(s, h), s, s + h))

\* C7: both multipliers are 1.0 when the inner loop of a start year begins,
\* and every entry of every series is what the table entries of the years
\* start_year..start_year+horizon alone determine.
C7_StartYearsIndependent ==
    /\ (pc = "inner" /\ year = start_year) => (ak_sum = One /\ kf_sum = One)
    /\ (pc \in {"outer", "panicked", "print", "done"} \/ (pc = "inner" /\ year = 2023)
         \/ (pc = "inner" /\ year - start_year \in {5, 10, 15, 20, 25})) =>
           \A i \in 1..5 : \A j \in 1..Len(AllSeries[i]) :
               AllSeries[i][j] = WindowResult(AllSeries[i][j].start_year, HorizonAt(i))

C7_Witness ==
    /\ pc = "inner"
    /\ year = start_year
    /\ start_year = 1995
    /\ Len(series_5) = 2
    /\ series_5[1].start_year = 1993 /\ series_5[2].start_year = 1994
    /\ ak_sum = One /\ kf_sum = One

YearsIn(records) == {DateYear(records[i].date) : i \in 1..Len(records)}

\* the place in the file of the observation of year y that no other observation
\* of the year is dated after, nor dated the same and placed after
LatestOf(records, y) ==
    CHOOSE i \in 1..Len(records) :
        /\ DateYear(records[i].date) = y
        /\ \A j \in 1..Len(records) :
               DateYear(records[j].date) = y =>
                   \/ DateLess(records[j].date, records[i].date)
                   \/ (records[j].date = records[i].date /\ j <= i)

KeepsLatest(records, by_year) ==
    /\ DOMAIN by_year = YearsIn(records)
    /\ \A y \in YearsIn(records) : by_year[y] = records[LatestOf(records, y)].value

\* C8: for each source and each year with an observation, the value kept for
\* the year is the value of its latest-dated observation, whatever the order of
\* the file; of two observations of one date the one later in the file is kept.
C8_LatestObservationKept ==
    /\ pc \notin {"load_omxs30"} => KeepsLatest(omx_records, last_omxs30_by_year)
    /\ pc \notin {"load_omxs30", "load_slr"} => KeepsLatest(slr_records, last_slr_by_year)

\* an out-of-order file of two years with a date that occurs twice
C8_Witness ==
    /\ pc = "load_slr"
    /\ Len(omx_records) = 3
    /\ omx_records[1].date = <<1994, 1>>
    /\ omx_records[2].date = <<1993, 2>>
    /\ omx_records[3].date = <<1993, 2>>
    /\ last_omxs30_by_year[1993] = omx_records[3].value
    /\ last_omxs30_by_year[1993] # omx_records[2].value

\* C9: the table has an entry for exactly the years of the union of the two
\* sources; the index value is the source's, 0.0 for a year the index source
\* lacks; the tax rate of a year the rate source lacks is the Tax Model's
\* value at 0.0, which is 0.00375.
C9_UnionZeroFilled ==
    pc \notin {"load_omxs30", "load_slr", "combine"} =>
        /\ DOMAIN combined_records = YearsIn(omx_records) \cup YearsIn(slr_records)
        /\ \A y \in DOMAIN combined_records :
               /\ y \notin YearsIn(omx_records) => combined_records[y].omxs30 = Zero
               /\ y \in YearsIn(omx_records) =>
                      combined_records[y].omxs30 = last_omxs30_by_year[y]
               /\ y \notin YearsIn(slr_records) =>
                      /\ combined_records[y].avkastningsskatt
                             = calculate_avkastningsskatt(Zero)
                      /\ combined_records[y].avkastningsskatt = FromRat(375, 100000)

C9_Witness ==
    /\ pc = "outer"
    /\ YearsIn(omx_records) = {1993}
    /\ YearsIn(slr_records) = {1994}
    /\ DOMAIN combined_records = {1993, 1994}
    /\ combined_records[1994].omxs30 = Zero
    /\ combined_records[1993].avkastningsskatt = FromRat(375, 100000)

\* the reference rate the table entry of year y was made from (line 148)
RateOf(y) == IF y \in DOMAIN last_slr_by_year THEN last_slr_by_year[y] ELSE Zero

FloorTax == FromRat(375, 100000)
FloorFrom == FromRat(25, 100)
ThreePerMille == FMul(FromRat(1, 100), FromRat(30, 100))

\* C10: the tax rate of every table entry is 0.00375 when the reference rate r
\* is at most 0.25 (so for every r <= -1.25), is 0.01 * (r + 1.0) * 0.30 when
\* r > 0.25, is 0.00375 when r is NaN, and is never NaN nor below 0.00375.
C10_TaxModel ==
    pc \notin {"load_omxs30", "load_slr", "combine"} =>
        \A y \in DOMAIN combined_records :
            LET r == RateOf(y)
                t == combined_records[y].avkastningsskatt
            IN  /\ FLe(r, FromRat(-125, 100)) => t = FloorTax
                /\ FLe(r, FloorFrom) => t = FloorTax
                /\ FLt(FloorFrom, r) => t = FMul(ThreePerMille, FAdd(r, One))
                /\ IsNaN(r) => t = FloorTax
                /\ ~IsNaN(t)
                /\ ~FLt(t, FloorTax)

C10_Witness ==
    /\ pc = "outer"
    /\ DOMAIN combined_records = {1993, 1994}
    /\ RateOf(1993) = FromInt(-2)
    /\ combined_records[1993].avkastningsskatt = FromRat(375, 100000)
    /\ RateOf(1994) = FromInt(9)
    /\ combined_records[1994].avkastningsskatt = FromRat(3, 100)

====
